---- MODULE Spec2Model ----
(***************************************************************************)
(* micropacker: path-closure construction (addToSetsFromPath), directory   *)
(* necessity reduction (finalize, IsFolderNeeded) and archive              *)
(* serialization (WriteTar, addToTar), driven by main.                     *)
(*                                                                         *)
(* A Go string is modelled as a sequence of one-character strings, so that *)
(* strings.HasPrefix, filepath.Clean and strings.Split work on characters  *)
(* exactly as the library does.                                            *)
(***************************************************************************)
EXTENDS Integers, Sequences, FiniteSets, TLC

(***************************************************************************)
(* Bounds of the model.                                                    *)
(***************************************************************************)
\* lines the scanner loop of main reads before end of input
MaxLines == 2
\* nested addToSetsFromPath frames the model follows
MaxDepth == 5
\* symbolic links the kernel follows while resolving one path (ELOOP beyond)
MaxSymlinks == 6

(***************************************************************************)
(* Strings.                                                                *)
(***************************************************************************)
Slash == <<"/">>

\* characters in byte order, as far as the model's paths use them
Alphabet == <<"-", ".", "/", "0", "1", "2", "3", "4", "5", "6", "7", "8", "9", ":",
              "a", "b", "c", "d", "e", "f", "g", "h", "i", "j", "k", "l", "m",
              "n", "o", "p", "q", "r", "s", "t", "u", "v", "w", "x", "y", "z">>

Ord(c) == CHOOSE i \in 1..Len(Alphabet) : Alphabet[i] = c

\* s < t in byte-wise lexical order (Go's string comparison, sort.Strings)
RECURSIVE StrLess(_, _)
StrLess(s, t) ==
    IF t = <<>> THEN FALSE
    ELSE IF s = <<>> THEN TRUE
    ELSE IF Head(s) = Head(t) THEN StrLess(Tail(s), Tail(t))
    ELSE Ord(Head(s)) < Ord(Head(t))

\* strings.HasPrefix(s, prefix)
HasPrefix(s, prefix) ==
    /\ Len(s) >= Len(prefix)
    /\ SubSeq(s, 1, Len(prefix)) = prefix

\* path.IsAbs(p)
IsAbs(p) == Len(p) > 0 /\ p[1] = "/"

\* strings.Split(s, sep) for a one-character separator: the pieces between
\* separators, empty pieces included; Split("", sep) is one empty piece
RECURSIVE SplitFrom(_, _, _)
SplitFrom(s, sep, cur) ==
    IF s = <<>> THEN <<cur>>
    ELSE IF Head(s) = sep THEN <<cur>> \o SplitFrom(Tail(s), sep, <<>>)
    ELSE SplitFrom(Tail(s), sep, Append(cur, Head(s)))

Split(s, sep) == SplitFrom(s, sep, <<>>)

\* the pieces joined by "/"
RECURSIVE JoinSegs(_)
JoinSegs(segs) ==
    IF segs = <<>> THEN <<>>
    ELSE IF Len(segs) = 1 THEN segs[1]
    ELSE segs[1] \o Slash \o JoinSegs(Tail(segs))

Dot == <<".">>
DotDot == <<".", ".">>

\* the elements of a path: its pieces without the empty ones
RECURSIVE NonEmpty(_)
NonEmpty(segs) ==
    IF segs = <<>> THEN <<>>
    ELSE IF Head(segs) = <<>> THEN NonEmpty(Tail(segs))
    ELSE <<Head(segs)>> \o NonEmpty(Tail(segs))

Elements(p) == NonEmpty(Split(p, "/"))

\* filepath.Clean's element pass: "." dropped, an inner ".." removes the
\* element before it, ".." at the root is dropped, a leading ".." of a
\* relative path is kept
RECURSIVE CleanSegs(_, _, _)
CleanSegs(segs, out, rooted) ==
    IF segs = <<>> THEN out
    ELSE LET e == Head(segs)
             rest == Tail(segs)
         IN  IF e = Dot THEN CleanSegs(rest, out, rooted)
             ELSE IF e = DotDot
                  THEN IF out # <<>> /\ out[Len(out)] # DotDot
                       THEN CleanSegs(rest, SubSeq(out, 1, Len(out) - 1), rooted)
                       ELSE IF rooted THEN CleanSegs(rest, out, rooted)
                       ELSE CleanSegs(rest, Append(out, e), rooted)
                  ELSE CleanSegs(rest, Append(out, e), rooted)

\* filepath.Clean(p)
Clean(p) ==
    LET rooted == IsAbs(p)
        out == CleanSegs(Elements(p), <<>>, rooted)
    IN  IF rooted THEN Slash \o JoinSegs(out)
        ELSE IF out = <<>> THEN Dot
        ELSE JoinSegs(out)

\* strings.LastIndexByte(s, '/'), as a 0-based index; -1 when there is none
LastIndexByte(s, c) ==
    IF \E i \in 1..Len(s) : s[i] = c
    THEN (CHOOSE i \in 1..Len(s) : s[i] = c /\ \A j \in (i + 1)..Len(s) : s[j] # c) - 1
    ELSE -1

(***************************************************************************)
(* The filesystem the program probes (os.Lstat, os.Stat, os.Readlink,      *)
(* directory listing).  A disk maps the canonical location of every entry  *)
(* (the sequence of its names from the root, no symbolic link among them)  *)
(* to what is there.                                                       *)
(***************************************************************************)
n_bin == <<"b", "i", "n">>
n_usr == <<"u", "s", "r">>
n_sh == <<"s", "h">>
n_old == <<"o", "l", "d">>
n_st == <<"s", "t">>
n_lib == <<"l", "i", "b">>
n_libc == <<"l", "i", "b", "c">>
n_lib64 == <<"l", "i", "b", "6", "4">>
n_ldso == <<"l", "d", ".", "s", "o">>
n_ld2so == <<"l", "d", "-", "2", ".", "s", "o">>
n_ldold == <<"l", "d", "-", "o", "l", "d">>
n_etc == <<"e", "t", "c">>
n_mtab == <<"m", "t", "a", "b">>
n_dang == <<"d", "a", "n", "g">>
n_nothere == <<"n", "o", "t", "h", "e", "r", "e">>
n_c1 == <<"c", "1">>
n_c2 == <<"c", "2">>
n_l1 == <<"l", "1">>
n_l2 == <<"l", "2">>
n_passwd == <<"p", "a", "s", "s", "w", "d">>
n_proc == <<"p", "r", "o", "c">>
n_mounts == <<"m", "o", "u", "n", "t", "s">>
n_dev == <<"d", "e", "v">>
n_null == <<"n", "u", "l", "l">>
n_devfoo == <<"d", "e", "v", "f", "o", "o">>
n_sys == <<"s", "y", "s">>
n_var == <<"v", "a", "r">>
n_docker == <<"d", "o", "c", "k", "e", "r">>
n_mnt == <<"m", "n", "t">>
n_tmp == <<"t", "m", "p">>
n_a == <<"a">>
n_foo == <<"f", "o", "o">>
n_tmpfoo == <<"t", "m", "p", "f", "o", "o">>
n_java == <<"j", "a", "v", "a">>
n_sbin == <<"s", "b", "i", "n">>

\* the absolute path string of a location
AbsPath(segs) == Slash \o JoinSegs(segs)

DirNode == [kind |-> "dir", target |-> <<>>, elf |-> "none", interp |-> <<>>]
DataNode == [kind |-> "file", target |-> <<>>, elf |-> "none", interp |-> <<>>]
\* a statically linked executable: an ELF file without an .interp section
StaticNode == [kind |-> "file", target |-> <<>>, elf |-> "nointerp", interp |-> <<>>]
\* a dynamically linked executable whose .interp section names i
ExecNode(i) == [kind |-> "file", target |-> <<>>, elf |-> "interp", interp |-> i]
LinkNode(t) == [kind |-> "link", target |-> t, elf |-> "none", interp |-> <<>>]

Entry(loc, node) == [loc |-> loc, node |-> node]

\* everything but the scratch directory
BaseEntries == {
    Entry(<<>>, DirNode),
    Entry(<<n_bin>>, LinkNode(JoinSegs(<<n_usr, n_bin>>))),
    Entry(<<n_usr>>, DirNode),
    Entry(<<n_usr, n_bin>>, DirNode),
    Entry(<<n_usr, n_bin, n_sh>>, ExecNode(AbsPath(<<n_lib64, n_ldso>>))),
    Entry(<<n_usr, n_bin, n_old>>, ExecNode(AbsPath(<<n_lib, n_ldold>>))),
    Entry(<<n_usr, n_bin, n_st>>, StaticNode),
    Entry(<<n_lib>>, DirNode),
    Entry(<<n_lib, n_libc>>, DataNode),
    Entry(<<n_lib64>>, DirNode),
    Entry(<<n_lib64, n_ldso>>, LinkNode(n_ld2so)),
    Entry(<<n_lib64, n_ld2so>>, DataNode),
    Entry(<<n_etc>>, DirNode),
    Entry(<<n_etc, n_mtab>>, LinkNode(AbsPath(<<n_proc, n_mounts>>))),
    Entry(<<n_etc, n_dang>>, LinkNode(n_nothere)),
    Entry(<<n_etc, n_c1>>, LinkNode(n_c2)),
    Entry(<<n_etc, n_c2>>, LinkNode(AbsPath(<<n_etc, n_c1>>))),
    Entry(<<n_etc, n_l1>>, LinkNode(JoinSegs(<<DotDot, n_lib, n_libc>>))),
    Entry(<<n_etc, n_l2>>, LinkNode(AbsPath(<<n_etc, n_l1>>))),
    Entry(<<n_etc, n_passwd>>, DataNode),
    Entry(<<n_proc>>, DirNode),
    Entry(<<n_proc, n_mounts>>, DataNode),
    Entry(<<n_dev>>, DirNode),
    Entry(<<n_dev, n_null>>, DataNode),
    Entry(<<n_devfoo>>, DataNode),
    Entry(<<n_var>>, DirNode),
    Entry(<<n_var, n_lib>>, DirNode),
    Entry(<<n_var, n_lib, n_docker>>, LinkNode(AbsPath(<<n_mnt>>))),
    Entry(<<n_mnt>>, DirNode),
    Entry(<<n_tmpfoo>>, DataNode)}

\* the scratch directory and what lies in it
TmpEntries == {
    Entry(<<n_tmp>>, DirNode),
    Entry(<<n_tmp, n_a>>, DataNode),
    Entry(<<n_tmp, n_foo>>, DirNode)}

\* the disks a run may find: with and without a scratch directory
DiskIds == {"full", "notmp"}

\* the disk with these entries
Table(entries) == [l \in {e.loc : e \in entries} |-> (CHOOSE e \in entries : e.loc = l).node]

DiskFull == Table(BaseEntries \cup TmpEntries)
DiskNoTmp == Table(BaseEntries)

Disk(d) == IF d = "full" THEN DiskFull ELSE DiskNoTmp

\* the working directory of the process, as a location
Cwd == <<n_etc>>

(***************************************************************************)
(* Path resolution as the kernel does it: element by element from the root *)
(* (or the working directory), following symbolic links in every element   *)
(* but, for Lstat and Readlink, the last.                                  *)
(***************************************************************************)
Found(loc) == [err |-> "", loc |-> loc]
Failed(e) == [err |-> e, loc |-> <<>>]

\* what is at a location; "none" where the disk has nothing
NodeAt(d, loc) ==
    IF loc \in DOMAIN Disk(d) THEN Disk(d)[loc]
    ELSE [kind |-> "none", target |-> <<>>, elf |-> "none", interp |-> <<>>]

Parent(loc) == IF loc = <<>> THEN loc ELSE SubSeq(loc, 1, Len(loc) - 1)

RECURSIVE WalkPath(_, _, _, _, _)
RECURSIVE WalkNode(_, _, _, _, _, _)
\* the elements comps, taken from the directory at cur
WalkPath(d, cur, comps, followLast, nlinks) ==
    IF comps = <<>> THEN Found(cur)
    ELSE IF Head(comps) = Dot THEN WalkPath(d, cur, Tail(comps), followLast, nlinks)
    ELSE IF Head(comps) = DotDot
         THEN WalkPath(d, Parent(cur), Tail(comps), followLast, nlinks)
    ELSE WalkNode(d, cur, NodeAt(d, Append(cur, Head(comps))), comps, followLast, nlinks)

\* the element Head(comps) of the directory at cur, where the disk has node
WalkNode(d, cur, node, comps, followLast, nlinks) ==
    IF node.kind = "none" THEN Failed("ENOENT")
    ELSE IF node.kind = "link" /\ (Tail(comps) # <<>> \/ followLast)
         THEN IF nlinks >= MaxSymlinks THEN Failed("ELOOP")
              ELSE WalkPath(d, IF IsAbs(node.target) THEN <<>> ELSE cur,
                            Elements(node.target) \o Tail(comps), followLast, nlinks + 1)
    ELSE IF node.kind = "file" /\ Tail(comps) # <<>> THEN Failed("ENOTDIR")
    ELSE WalkPath(d, Append(cur, Head(comps)), Tail(comps), followLast, nlinks)

\* a trailing separator makes the kernel treat the last element as a directory
PathComps(p) ==
    IF Len(p) > 1 /\ p[Len(p)] = "/" THEN Append(Elements(p), Dot) ELSE Elements(p)

Resolve(d, p, followLast) ==
    IF p = <<>> THEN Failed("ENOENT")
    ELSE WalkPath(d, IF IsAbs(p) THEN <<>> ELSE Cwd, PathComps(p), followLast, 0)

\* the FileInfo of a resolved path: its kind, and where it is
InfoOf(r, node) ==
    IF r.err # "" THEN [err |-> r.err, kind |-> "", loc |-> <<>>, target |-> <<>>]
    ELSE [err |-> "", kind |-> node.kind, loc |-> r.loc, target |-> node.target]

InfoAt(d, r) == InfoOf(r, NodeAt(d, r.loc))

\* os.Lstat(p): the entry itself, the last element not followed
Lstat(d, p) == InfoAt(d, Resolve(d, p, FALSE))

\* os.Stat(p): the entry after every symbolic link is followed
Stat(d, p) == InfoAt(d, Resolve(d, p, TRUE))

\* os.Readlink(p): the stored target; the empty string on any error
ReadlinkOf(st) == IF st.err = "" /\ st.kind = "link" THEN st.target ELSE <<>>

Readlink(d, p) == ReadlinkOf(Lstat(d, p))

\* IsSymlink(filename): (is a symbolic link, error)
IsSymlinkOf(st) ==
    IF st.err = "" THEN [val |-> st.kind = "link", err |-> ""]
    ELSE [val |-> FALSE, err |-> st.err]

IsSymlink(d, filename) == IsSymlinkOf(Lstat(d, filename))

\* IsDir(filename): (is a directory, error)
IsDirOf(st) ==
    IF st.err = "" THEN [val |-> st.kind = "dir", err |-> ""]
    ELSE [val |-> FALSE, err |-> st.err]

IsDir(d, filename) == IsDirOf(Lstat(d, filename))

(***************************************************************************)
(* The ELF Interpreter Reader.                                             *)
(***************************************************************************)
\* the terminator that closes the string stored in the .interp section
NUL == "NUL"

\* GetInterpFromExec(file): "ok" with the interpreter, "err" with an error
\* returned to main, or "panic" (elf.Open's error is dropped, so a file that
\* is no ELF file leaves a nil *elf.File that Section dereferences)
InterpOf(st, node) ==
    IF st.err # "" THEN [outcome |-> "err", interp |-> <<>>]
    ELSE IF st.kind # "file" THEN [outcome |-> "err", interp |-> <<>>]
    ELSE IF node.elf = "none" THEN [outcome |-> "panic", interp |-> <<>>]
    ELSE IF node.elf = "nointerp" THEN [outcome |-> "err", interp |-> <<>>]
    ELSE [outcome |-> "ok", interp |-> SubSeq(node.interp \o <<NUL>>, 1, Len(node.interp))]

InterpAt(d, st) == InterpOf(st, NodeAt(d, st.loc))

GetInterpFromExec(d, file) == InterpAt(d, Stat(d, file))

(***************************************************************************)
(* The Search-Path Resolver.                                               *)
(***************************************************************************)
RECURSIVE LookFolders(_, _, _)
RECURSIVE LookFile(_, _, _, _)
LookFolders(d, folders, file) ==
    IF folders = <<>> THEN [ok |-> FALSE, path |-> <<>>]
    ELSE LookFile(d, folders, file, Lstat(d, Head(folders) \o Slash \o file))

\* newFile, probed: returned unless it is missing or a folder
LookFile(d, folders, file, newFileInfo) ==
    IF newFileInfo.err = "" /\ newFileInfo.kind # "dir"
    THEN [ok |-> TRUE, path |-> Head(folders) \o Slash \o file]
    ELSE LookFolders(d, Tail(folders), file)

\* container.lookEnvForFile(file)
lookEnvForFile(d, pathEnvVar, file) == LookFolders(d, Split(pathEnvVar, ":"), file)

(***************************************************************************)
(* The Path Classifier: the prefix tests of addToSetsFromPath.             *)
(***************************************************************************)
p_dev == AbsPath(<<n_dev>>)
p_proc == AbsPath(<<n_proc>>)
p_sys == AbsPath(<<n_sys>>)
p_docker == AbsPath(<<n_var, n_lib, n_docker>>)

\* ignorePaths, emptied by the unsafe flag
IgnorePaths(unsafe) == IF unsafe THEN {} ELSE {p_dev, p_proc, p_sys, p_docker}

\* the test made for a symbolic link and for a regular file
FileIgnored(p, ignorePaths) ==
    \E prefix \in ignorePaths : HasPrefix(p, prefix \o Slash)

\* the test made for a directory
FolderIgnored(p, ignorePaths) ==
    \E prefix \in ignorePaths : HasPrefix(p, prefix \o Slash) \/ prefix = p

(***************************************************************************)
(* The Directory Necessity Reducer.                                        *)
(***************************************************************************)
IsFolderNeeded(folder, files, folders) ==
    /\ ~ \E fileEntry \in files : HasPrefix(fileEntry, folder)
    /\ ~ \E folderEntry \in folders : HasPrefix(folderEntry, folder) /\ folder # folderEntry

p_tmp == AbsPath(<<n_tmp>>)
p_tmpSlash == p_tmp \o Slash

\* the first loop of finalize
NeededOf(files, folders) == {folder \in folders : IsFolderNeeded(folder, files, folders)}

\* a variant that tests the characters of "/tmp" alone, without the separator
FoundTmpFile_NoSeparator(files) == \E k \in files : HasPrefix(k, p_tmp)

\* found_tmp after the loop over fileSet
FoundTmpFile(files) == \E k \in files : HasPrefix(k, p_tmpSlash)

\* found_tmp after the loop over neededFolderSet
FoundTmpFolder(needed) == \E k \in needed : k = p_tmp \/ k = p_tmpSlash

\* neededFolderSet when finalize returns
FinalNeeded(files, folders) ==
    LET needed == NeededOf(files, folders)
    IN  IF FoundTmpFile(files) \/ FoundTmpFolder(needed) THEN needed
        ELSE needed \cup {p_tmpSlash}

\* a set of strings in ascending order
RECURSIVE SortedSeq(_)
SortedSeq(S) ==
    IF S = {} THEN <<>>
    ELSE LET m == CHOOSE x \in S : \A y \in S \ {x} : StrLess(x, y)
         IN  <<m>> \o SortedSeq(S \ {m})

RECURSIVE Reverse(_)
Reverse(q) == IF q = <<>> THEN <<>> ELSE Append(Reverse(Tail(q)), Head(q))

\* the orders in which a range over a map may visit its keys: Go leaves the
\* order open; the model takes the ascending and the descending one
MapOrders(S) == {SortedSeq(S), Reverse(SortedSeq(S))}

(***************************************************************************)
(* The Archive Serializer.                                                 *)
(***************************************************************************)
\* the names in a directory, sorted (filepath.Walk's readDirNames)
DirNames(d, loc) ==
    SortedSeq({q[Len(q)] : q \in {r \in DOMAIN Disk(d) :
                                     Len(r) = Len(loc) + 1 /\ SubSeq(r, 1, Len(loc)) = loc}})

\* the header addToTar's callback writes for one entry, and whether the
\* content of the file follows it
TarEntry(fullPath, node) ==
    [name |-> fullPath,
     typeflag |-> node.kind,
     linkname |-> IF node.kind = "link" THEN node.target ELSE <<>>,
     content |-> node.kind = "file"]

\* filepath.Walk below an entry: the entry, then for a directory every name
\* in it, recursively, joined to the path with filepath.Join
RECURSIVE WalkTree(_, _, _, _)
RECURSIVE WalkNames(_, _, _, _)
WalkTree(d, path, loc, node) ==
    <<TarEntry(path, node)>> \o
    (IF node.kind = "dir" THEN WalkNames(d, path, loc, DirNames(d, loc)) ELSE <<>>)

WalkNames(d, path, loc, names) ==
    IF names = <<>> THEN <<>>
    ELSE WalkTree(d, Clean(path \o Slash \o Head(names)), Append(loc, Head(names)),
                  NodeAt(d, Append(loc, Head(names))))
         \o WalkNames(d, path, loc, Tail(names))

\* filepath.Walk(path, ...) after its os.Lstat(path)
WalkFrom(d, path, st) ==
    IF st.err # "" THEN [err |-> TRUE, entries |-> <<>>]
    ELSE [err |-> FALSE, entries |-> WalkTree(d, path, st.loc, NodeAt(d, st.loc))]

\* addToTar(tarWriter, path): the entries written, and whether it failed
addToTar(d, path) == WalkFrom(d, path, Lstat(d, path))

\* the loop of WriteTar over paths: stops at the first failure
RECURSIVE WriteEntries(_, _)
RECURSIVE WriteRest(_, _, _)
WriteEntries(d, paths) ==
    IF paths = <<>> THEN [err |-> FALSE, entries |-> <<>>]
    ELSE WriteRest(d, paths, addToTar(d, Head(paths)))

WriteRest(d, paths, one) ==
    IF one.err THEN one
    ELSE [err |-> WriteEntries(d, Tail(paths)).err,
          entries |-> one.entries \o WriteEntries(d, Tail(paths)).entries]

(***************************************************************************)
(* The run: main, and the frames of addToSetsFromPath.                     *)
(***************************************************************************)
VARIABLES
    pc,               \* where main is
    disk,             \* the filesystem of this run
    unsafePaths,      \* container.unsafePaths
    pathEnvVar,       \* container.pathEnvVar
    interp,           \* the interpreter main read from the reference executable
    fileSet,          \* container.fileSet
    folderSet,        \* container.folderSet
    neededFolderSet,  \* container.neededFolderSet
    stack,            \* the active frames of addToSetsFromPath, innermost last
    calls,            \* calls of addToSetsFromPath made for the current candidate
    top,              \* the candidate main passed to addToSetsFromPath
    absorbed,         \* the candidates whose addToSetsFromPath has returned
    lastCalls,        \* calls made for the last candidate that returned
    nLines,           \* lines the scanner has delivered
    allPaths,         \* what finalize returned
    tar,              \* the entries written to the archive
    fatal,            \* the fatal condition that ended the run, if any
    exitCode          \* the exit status of the process

vars == <<pc, disk, unsafePaths, pathEnvVar, interp, fileSet, folderSet, neededFolderSet,
          stack, calls, top, absorbed, lastCalls, nLines, allPaths, tar, fatal, exitCode>>

None == <<"none">>

\* values of the PATH environment variable: two absolute folders, an empty
\* one and one relative to the working directory
PathValues == {AbsPath(<<n_sbin>>) \o <<":">> \o AbsPath(<<n_bin>>) \o <<":", ":">>
               \o DotDot \o AbsPath(<<n_lib>>)}

\* values of the -x flag: the reference executable
ExecFlags == {AbsPath(<<n_bin, n_sh>>), AbsPath(<<n_bin, n_old>>), AbsPath(<<n_bin, n_st>>),
              AbsPath(<<n_etc, n_passwd>>), AbsPath(<<n_etc>>), AbsPath(<<n_nothere>>)}

\* the lines the input file may hold
Lines == {AbsPath(<<n_lib>>),
          AbsPath(<<n_tmp>>) \o Slash, AbsPath(<<n_tmp, n_a>>), AbsPath(<<n_tmp, n_foo>>),
          AbsPath(<<n_tmpfoo>>),
          AbsPath(<<n_etc, n_mtab>>), AbsPath(<<n_etc, n_dang>>), AbsPath(<<n_etc, n_c1>>),
          AbsPath(<<n_etc, n_l2>>),
          AbsPath(<<n_dev>>), AbsPath(<<n_dev, n_null>>), AbsPath(<<n_devfoo>>),
          AbsPath(<<n_var, n_lib, n_docker>>),
          n_sh, n_libc, n_passwd, n_l1}

Init ==
    /\ pc = "start"
    /\ disk \in DiskIds
    /\ unsafePaths = FALSE
    /\ pathEnvVar = <<>>
    /\ interp = None
    /\ fileSet = {}
    /\ folderSet = {}
    /\ neededFolderSet = {}
    /\ stack = <<>>
    /\ calls = 0
    /\ top = None
    /\ absorbed = {}
    /\ lastCalls = 0
    /\ nLines = 0
    /\ allPaths = <<>>
    /\ tar = <<>>
    /\ fatal = ""
    /\ exitCode = -1

\* main returns (exit status 0) or the runtime ends the process after a
\* panic (exit status 2)
Exit(why, code) ==
    /\ pc' = "exit"
    /\ fatal' = why
    /\ exitCode' = code

\* main, lines 205-254: the flags, then PATH
Start ==
    /\ pc = "start"
    /\ \E flagsSet \in BOOLEAN, u \in BOOLEAN, ok \in BOOLEAN, value \in PathValues :
         IF ~flagsSet
         THEN /\ Exit("usage", 0)
              /\ UNCHANGED <<unsafePaths, pathEnvVar>>
         ELSE IF ~ok
         THEN /\ Exit("PATH", 0)
              /\ unsafePaths' = u
              /\ UNCHANGED pathEnvVar
         ELSE /\ pc' = "interp"
              /\ unsafePaths' = u
              /\ pathEnvVar' = value
              /\ UNCHANGED <<fatal, exitCode>>
    /\ UNCHANGED <<disk, interp, fileSet, folderSet, neededFolderSet, stack, calls, top,
                   absorbed, lastCalls, nLines, allPaths, tar>>

\* the call container.addToSetsFromPath(pathString) made by main
CallAbsorb(pathString) ==
    /\ stack' = <<[arg |-> pathString, pc |-> "enter"]>>
    /\ calls' = 1
    /\ top' = pathString

\* lines 257-271, r being what GetInterpFromExec returned (or its panic)
InterpWith(r) ==
    IF r.outcome = "err"
    THEN /\ Exit("interp", 0)
         /\ UNCHANGED <<interp, stack, calls, top>>
    ELSE IF r.outcome = "panic"
    THEN /\ Exit("interp", 2)
         /\ UNCHANGED <<interp, stack, calls, top>>
    ELSE /\ pc' = "absorbInterp"
         /\ interp' = r.interp
         /\ CallAbsorb(r.interp)
         /\ UNCHANGED <<fatal, exitCode>>

\* main, lines 256-271: the interpreter, the container, the first candidate
GetInterp ==
    /\ pc = "interp"
    /\ \E file \in ExecFlags :
         InterpWith(GetInterpFromExec(disk, file))
    /\ UNCHANGED <<disk, unsafePaths, pathEnvVar, fileSet, folderSet, neededFolderSet,
                   absorbed, lastCalls, nLines, allPaths, tar>>

(***************************************************************************)
(* The Closure Builder: addToSetsFromPath.  A frame is entered (lines       *)
(* 51-91: the symbolic-link branch, up to the recursive call) and, when     *)
(* the call it made has returned, finished (lines 93-128).                  *)
(***************************************************************************)
\* a variant that hands the target on as the link reads, never joined to the
\* directory of the link
LinkPathOf_NotJoined(linkPath, normalizedPathString, index) ==
    [panic |-> FALSE, path |-> linkPath]

\* lines 77-83: where the link points, made absolute against the directory
\* of the link; slicing with index -1 panics
LinkPathOf(linkPath, normalizedPathString, index) ==
    IF IsAbs(linkPath) THEN [panic |-> FALSE, path |-> linkPath]
    ELSE IF index < 0 THEN [panic |-> TRUE, path |-> <<>>]
    ELSE [panic |-> FALSE,
          path |-> SubSeq(normalizedPathString, 1, index) \o Slash \o linkPath]

LinkPath(d, normalizedPathString) ==
    LinkPathOf(Readlink(d, normalizedPathString), normalizedPathString,
               LastIndexByte(normalizedPathString, "/"))

\* lines 93-128: fileSet after the directory / regular file part, dir being
\* what IsDir said of the path
TailFilesOf(dir, normalizedPathString, ignorePaths, files) ==
    IF ~dir.val /\ dir.err = "" /\ ~FileIgnored(normalizedPathString, ignorePaths)
    THEN files \cup {normalizedPathString}
    ELSE files

TailFiles(d, normalizedPathString, ignorePaths, files) ==
    TailFilesOf(IsDir(d, normalizedPathString), normalizedPathString, ignorePaths, files)

\* a variant that leaves out a directory lying below one already recorded
TailFoldersOf_SkipBelowRecorded(dir, normalizedPathString, ignorePaths, folders) ==
    IF /\ dir.val /\ dir.err = ""
       /\ ~FolderIgnored(normalizedPathString, ignorePaths)
       /\ ~ \E f \in folders : HasPrefix(normalizedPathString, f \o Slash)
    THEN folders \cup {normalizedPathString}
    ELSE folders

\* lines 93-128: folderSet after the directory / regular file part
TailFoldersOf(dir, normalizedPathString, ignorePaths, folders) ==
    IF dir.val /\ dir.err = "" /\ ~FolderIgnored(normalizedPathString, ignorePaths)
    THEN folders \cup {normalizedPathString}
    ELSE folders

TailFolders(d, normalizedPathString, ignorePaths, folders) ==
    TailFoldersOf(IsDir(d, normalizedPathString), normalizedPathString, ignorePaths, folders)

\* where main goes on when the call it made returns
Continuation == IF pc = "absorbInterp" THEN "open" ELSE "scan"

\* the innermost frame returns
Return ==
    /\ stack' = SubSeq(stack, 1, Len(stack) - 1)
    /\ IF Len(stack) = 1
       THEN /\ pc' = Continuation
            /\ absorbed' = absorbed \cup {top}
            /\ lastCalls' = calls
       ELSE UNCHANGED <<pc, absorbed, lastCalls>>
    /\ UNCHANGED <<calls, top, fatal, exitCode>>

\* lines 61-91, decided by the probe sym of the path and the link it reads:
\* "ignored" (line 70), "panic" (line 81), "follow" (line 87, the recursive
\* call), "error" (line 90) or "other" (no symbolic link: on to line 93)
BranchOf(sym, link, normalizedPathString, ignorePaths) ==
    IF sym.val /\ sym.err = ""
    THEN IF FileIgnored(normalizedPathString, ignorePaths) THEN "ignored"
         ELSE IF link.panic THEN "panic"
         ELSE "follow"
    ELSE IF sym.err # "" THEN "error"
    ELSE "other"

\* a variant that keeps a visited set: a path already in the container's
\* files is not followed again
SymlinkBranch_Visited(d, normalizedPathString, ignorePaths, files) ==
    IF normalizedPathString \in files THEN "ignored"
    ELSE BranchOf(IsSymlink(d, normalizedPathString), LinkPath(d, normalizedPathString),
                  normalizedPathString, ignorePaths)

\* the branch addToSetsFromPath takes for a path, given the container's files
SymlinkBranch(d, normalizedPathString, ignorePaths, files) ==
    BranchOf(IsSymlink(d, normalizedPathString), LinkPath(d, normalizedPathString),
             normalizedPathString, ignorePaths)

\* the innermost frame, entered with its path normalized (line 59)
EnterWith(normalizedPathString, ignorePaths, branch) ==
    IF branch = "ignored" \/ branch = "error"
    THEN Return /\ UNCHANGED <<fileSet, folderSet>>
    ELSE IF branch = "panic"
    THEN /\ fileSet' = fileSet \cup {normalizedPathString}
         /\ Exit("panic", 2)
         /\ UNCHANGED <<folderSet, stack, calls, top, absorbed, lastCalls>>
    ELSE IF branch = "follow"
    THEN /\ Len(stack) < MaxDepth
         /\ fileSet' = fileSet \cup {normalizedPathString}
         /\ stack' = Append([stack EXCEPT ![Len(stack)].pc = "tail"],
                            [arg |-> LinkPath(disk, normalizedPathString).path,
                             pc |-> "enter"])
         /\ calls' = calls + 1
         /\ UNCHANGED <<folderSet, pc, top, absorbed, lastCalls, fatal, exitCode>>
    ELSE /\ fileSet' = TailFiles(disk, normalizedPathString, ignorePaths, fileSet)
         /\ folderSet' = TailFolders(disk, normalizedPathString, ignorePaths, folderSet)
         /\ Return

\* lines 49-91, and lines 93-128 too when the path is no symbolic link
AbsorbEnter ==
    /\ stack # <<>>
    /\ stack[Len(stack)].pc = "enter"
    /\ EnterWith(Clean(stack[Len(stack)].arg), IgnorePaths(unsafePaths),
                 SymlinkBranch(disk, Clean(stack[Len(stack)].arg),
                               IgnorePaths(unsafePaths), fileSet))
    /\ UNCHANGED <<disk, unsafePaths, pathEnvVar, interp, neededFolderSet, nLines,
                   allPaths, tar>>

\* lines 93-128, after the recursive call of the symbolic-link branch
AbsorbTail ==
    /\ stack # <<>>
    /\ stack[Len(stack)].pc = "tail"
    /\ fileSet' = TailFiles(disk, Clean(stack[Len(stack)].arg), IgnorePaths(unsafePaths),
                            fileSet)
    /\ folderSet' = TailFolders(disk, Clean(stack[Len(stack)].arg),
                                IgnorePaths(unsafePaths), folderSet)
    /\ Return
    /\ UNCHANGED <<disk, unsafePaths, pathEnvVar, interp, neededFolderSet, nLines,
                   allPaths, tar>>

(***************************************************************************)
(* main, after the first candidate.                                        *)
(***************************************************************************)
\* lines 273-279: the input file is opened
OpenInput ==
    /\ pc = "open"
    /\ \E ok \in BOOLEAN :
         IF ok THEN pc' = "scan" /\ UNCHANGED <<fatal, exitCode>>
         ELSE Exit("input", 0)
    /\ UNCHANGED <<disk, unsafePaths, pathEnvVar, interp, fileSet, folderSet,
                   neededFolderSet, stack, calls, top, absorbed, lastCalls, nLines,
                   allPaths, tar>>

\* lines 285-300: what main does with a line, st being what os.Lstat said
\* of it and found what lookEnvForFile answers
LineWith(pathString, st, found) ==
    IF st.err # ""
    THEN IF st.err = "ENOENT" /\ ~IsAbs(pathString) /\ found.ok
         THEN pc' = "absorbLine" /\ CallAbsorb(found.path)
         ELSE UNCHANGED <<pc, stack, calls, top>>
    ELSE pc' = "absorbLine" /\ CallAbsorb(pathString)

\* lines 282-301: one line of the input
ScanLine ==
    /\ pc = "scan"
    /\ nLines < MaxLines
    /\ nLines' = nLines + 1
    /\ \E pathString \in Lines :
         LineWith(pathString, Lstat(disk, pathString),
                  lookEnvForFile(disk, pathEnvVar, pathString))
    /\ UNCHANGED <<disk, unsafePaths, pathEnvVar, interp, fileSet, folderSet,
                   neededFolderSet, absorbed, lastCalls, allPaths, tar, fatal, exitCode>>

\* lines 302-375: the end of the input (or the scanner's error), then the
\* package report, which reads fileSet and changes no set
EndOfInput ==
    /\ pc = "scan"
    /\ \E scanOk \in BOOLEAN, report \in {"off", "created", "failed"} :
         IF ~scanOk THEN Exit("scanner", 0)
         ELSE IF report = "failed" THEN Exit("report", 0)
         ELSE pc' = "finalize" /\ UNCHANGED <<fatal, exitCode>>
    /\ UNCHANGED <<disk, unsafePaths, pathEnvVar, interp, fileSet, folderSet,
                   neededFolderSet, stack, calls, top, absorbed, lastCalls, nLines,
                   allPaths, tar>>

\* line 380: container.finalize()
Finalize ==
    /\ pc = "finalize"
    /\ neededFolderSet' = FinalNeeded(fileSet, folderSet)
    /\ \E folders \in MapOrders(neededFolderSet'), files \in MapOrders(fileSet) :
         allPaths' = folders \o files
    /\ pc' = "tar"
    /\ UNCHANGED <<disk, unsafePaths, pathEnvVar, interp, fileSet, folderSet, stack,
                   calls, top, absorbed, lastCalls, nLines, tar, fatal, exitCode>>

\* lines 389-396: WriteTar(*outputFlag, allPaths)
WriteTar ==
    /\ pc = "tar"
    /\ \E created \in BOOLEAN :
         IF ~created THEN Exit("output", 0) /\ UNCHANGED tar
         ELSE /\ tar' = WriteEntries(disk, allPaths).entries
              /\ IF WriteEntries(disk, allPaths).err THEN Exit("probe", 0)
                 ELSE Exit("", 0)
    /\ UNCHANGED <<disk, unsafePaths, pathEnvVar, interp, fileSet, folderSet,
                   neededFolderSet, stack, calls, top, absorbed, lastCalls, nLines,
                   allPaths>>

Next ==
    \/ Start
    \/ GetInterp
    \/ AbsorbEnter
    \/ AbsorbTail
    \/ OpenInput
    \/ ScanLine
    \/ EndOfInput
    \/ Finalize
    \/ WriteTar

Spec == Init /\ [][Next]_vars

(***************************************************************************)
(* Notions the properties are stated with.                                 *)
(***************************************************************************)
\* finalize has run
Finalized == pc = "tar" \/ (pc = "exit" /\ fatal \in {"", "output", "probe"})

\* the run wrote its archive to the end
Archived == pc = "exit" /\ fatal = ""

\* a call main made of addToSetsFromPath has returned and main has not
\* left the input loop
Settled == stack = <<>> /\ (pc = "open" \/ pc = "scan")

\* a is a prefix of b by whole path elements
IsSeqPrefix(a, b) == Len(a) <= Len(b) /\ SubSeq(b, 1, Len(a)) = a

PathPrefix(a, b) == IsSeqPrefix(Elements(a), Elements(b))

StrictPathPrefix(a, b) == PathPrefix(a, b) /\ Elements(a) # Elements(b)

\* the entries of the ignore-list as the specification lists them
IgnoreList == {p_dev, p_proc, p_sys, p_docker}

\* p is an entry of the ignore-list or lies under one
Covered(p) == \E e \in IgnoreList : PathPrefix(e, p)

\* the names of the entries of an archive, in order
EntryNames(entries) == [i \in 1..Len(entries) |-> entries[i].name]

(***************************************************************************)
(* C1.  The entries WriteTar writes are exactly the paths of the list      *)
(* finalize returned, one entry per path in the order of the list, and the *)
(* entry of a directory carries no content.                                *)
(***************************************************************************)
C1_ArchiveIsPathList ==
    Archived =>
        /\ EntryNames(tar) = allPaths
        /\ \A i \in 1..Len(tar) : tar[i].typeflag = "dir" => ~tar[i].content

(***************************************************************************)
(* C2.  finalize carries a directory of Directory Set into Needed          *)
(* Directory Set exactly when no path of File Set lies under it and no     *)
(* other directory of Directory Set lies strictly under it, "under" taken  *)
(* by whole path elements.                                                 *)
(***************************************************************************)
C2_NeededIffNothingBelow ==
    Finalized =>
        \A D \in folderSet :
            D \in neededFolderSet <=>
                /\ ~ \E f \in fileSet : PathPrefix(D, f)
                /\ ~ \E D2 \in folderSet : StrictPathPrefix(D, D2)

(***************************************************************************)
(* C3.  After finalize no path of Needed Directory Set, the scratch        *)
(* directory finalize adds included, is a strict path prefix of another    *)
(* path of Needed Directory Set or of a path of File Set.                  *)
(***************************************************************************)
C3_NeededMinimal ==
    Finalized =>
        \A n \in neededFolderSet :
            \A q \in neededFolderSet \cup fileSet : ~StrictPathPrefix(n, q)

\* the directory part of a path: what precedes its last separator
DirPart(p) == SubSeq(p, 1, LastIndexByte(p, "/"))

\* the target of the symbolic link at S, made absolute against the
\* directory of S when it is relative, then normalized
TargetFrom(S, t) == Clean(IF IsAbs(t) THEN t ELSE DirPart(S) \o Slash \o t)

ResolvedTarget(d, S) == TargetFrom(S, Readlink(d, S))

IsLink(d, p) == Lstat(d, p).kind = "link"

Exists(d, p) == Lstat(d, p).err = ""

(***************************************************************************)
(* C4 as claimed.  When no call is active, every symbolic link of File Set *)
(* whose resolved target is not covered by the ignore-list has that target *)
(* in File Set or Directory Set, whatever the target is on disk.           *)
(***************************************************************************)
C4_ClosedUnderSymlinks ==
    Settled =>
        \A S \in fileSet :
            (IsLink(disk, S) /\ (unsafePaths \/ ~Covered(ResolvedTarget(disk, S))))
                => ResolvedTarget(disk, S) \in fileSet \cup folderSet

(***************************************************************************)
(* C4 as amended.  The same, for the symbolic links whose resolved target  *)
(* exists on disk.                                                         *)
(***************************************************************************)
C4_ClosedUnderExistingTargets ==
    Settled =>
        \A S \in fileSet :
            (/\ IsLink(disk, S)
             /\ Exists(disk, ResolvedTarget(disk, S))
             /\ (unsafePaths \/ ~Covered(ResolvedTarget(disk, S))))
                => ResolvedTarget(disk, S) \in fileSet \cup folderSet

\* a symbolic link with a relative target was followed to an existing entry
C4_Witness ==
    /\ Settled
    /\ \E S \in fileSet :
         /\ IsLink(disk, S)
         /\ ~IsAbs(Readlink(disk, S))
         /\ Exists(disk, ResolvedTarget(disk, S))
         /\ ResolvedTarget(disk, S) \in fileSet

(***************************************************************************)
(* C5.  Under the default configuration neither set holds a path that is   *)
(* an entry of the ignore-list or lies under one, of whatever kind; a path *)
(* that only shares characters with an entry is not ignored; with the      *)
(* unsafe override an existing candidate under an entry is added.          *)
(***************************************************************************)
C5_IgnoreListEnforced ==
    Settled =>
        /\ ~unsafePaths => \A p \in fileSet \cup folderSet : ~Covered(p)
        /\ \A a \in absorbed :
             (Exists(disk, a) /\ (unsafePaths \/ ~Covered(Clean(a))))
                => Clean(a) \in fileSet \cup folderSet

(***************************************************************************)
(* C6.  After finalize: when File Set holds no path under /tmp, Needed     *)
(* Directory Set holds the scratch directory, candidate or not; when File  *)
(* Set holds a path under /tmp, finalize has added no scratch entry.       *)
(***************************************************************************)
C6_ScratchGuaranteed ==
    Finalized =>
        IF \E f \in fileSet : StrictPathPrefix(p_tmp, f)
        THEN p_tmpSlash \notin neededFolderSet /\ neededFolderSet \subseteq folderSet
        ELSE p_tmp \in neededFolderSet \/ p_tmpSlash \in neededFolderSet

\* the scratch directory was no candidate and a file that only shares the
\* characters of /tmp was absorbed: finalize added the scratch directory
C6_Witness ==
    /\ Finalized
    /\ p_tmp \notin folderSet
    /\ AbsPath(<<n_tmpfoo>>) \in fileSet
    /\ p_tmpSlash \in neededFolderSet

\* the test the closure makes of a file or link, and of a directory
UnderIgnored(p, unsafe) == ~unsafe /\ \E e \in IgnoreList : StrictPathPrefix(e, p)

\* the paths visited from n along symbolic links that are followed
RECURSIVE VisitedFrom(_, _, _, _)
VisitedFrom(d, unsafe, n, seen) ==
    IF n \in seen THEN seen
    ELSE IF IsLink(d, n) /\ ~UnderIgnored(n, unsafe)
    THEN VisitedFrom(d, unsafe, ResolvedTarget(d, n), seen \cup {n})
    ELSE seen \cup {n}

VisitedAll(d, unsafe, A) == UNION {VisitedFrom(d, unsafe, Clean(a), {}) : a \in A}

ExpectedFiles(d, unsafe, A) ==
    {n \in VisitedAll(d, unsafe, A) :
        Lstat(d, n).kind \in {"file", "link"} /\ ~UnderIgnored(n, unsafe)}

ExpectedFolders(d, unsafe, A) ==
    {n \in VisitedAll(d, unsafe, A) :
        Lstat(d, n).kind = "dir" /\ ~(~unsafe /\ Covered(n))}

(***************************************************************************)
(* C7.  The sets depend only on the set of candidates absorbed: they are   *)
(* the closure of that set, however often and in whatever order the        *)
(* candidates came.                                                        *)
(***************************************************************************)
C7_SetsAreClosureOfCandidates ==
    Settled =>
        /\ fileSet = ExpectedFiles(disk, unsafePaths, absorbed)
        /\ folderSet = ExpectedFolders(disk, unsafePaths, absorbed)

\* two lines were absorbed after the interpreter, a directory and the
\* directory above it among them
C7_Witness ==
    /\ Settled
    /\ nLines = 2
    /\ pc = "scan"
    /\ Cardinality(absorbed) = 3
    /\ {p_tmp, AbsPath(<<n_tmp, n_foo>>)} \subseteq folderSet

(***************************************************************************)
(* C8.  Whenever a run reaches finalization, the interpreter read from the *)
(* reference executable is in File Set and in the list handed to WriteTar. *)
(***************************************************************************)
C8_InterpreterArchived ==
    Finalized =>
        /\ interp \in fileSet
        /\ \E i \in 1..Len(allPaths) : allPaths[i] = interp

\* the conditions main reports and stops on
FatalConditions == {"PATH", "interp", "input", "output", "probe"}

(***************************************************************************)
(* C9.  Each fatal condition stops the run at once and the run ends with a *)
(* non-zero exit status.                                                   *)
(***************************************************************************)
C9_FatalEndsNonZero ==
    fatal \in FatalConditions => (pc = "exit" /\ exitCode # 0)

\* the links followed from n, or -1 when the chain comes back to a path
RECURSIVE ChainLinks(_, _, _, _)
ChainLinks(d, unsafe, n, seen) ==
    IF n \in seen THEN -1
    ELSE IF IsLink(d, n) /\ ~UnderIgnored(n, unsafe)
    THEN ChainLinks(d, unsafe, ResolvedTarget(d, n), seen \cup {n})
    ELSE Cardinality(seen)

LinksOf(candidate) == ChainLinks(disk, unsafePaths, Clean(candidate), {})

IsCleanAbs(p) == IsAbs(p) /\ Clean(p) = p

(***************************************************************************)
(* C11.  At every point of a run, and so after it, every member of File    *)
(* Set, Directory Set and Needed Directory Set is an absolute path in      *)
(* lexically cleaned form: no trailing separator, no . or .. element.      *)
(***************************************************************************)
C11_KeysAreCleanAbsolute ==
    \A p \in fileSet \cup folderSet \cup neededFolderSet : IsCleanAbs(p)

====
